---- MODULE Spec2Model ----
(***************************************************************************)
(* Model of serial-unit-testing's Serial wrapper (src/serial/mod.rs), of   *)
(* send_text (src/send.rs) and of the analyser of test-definition files    *)
(* (src/parser/mod.rs), which has its own specification ParserSpec.        *)
(*                                                                         *)
(* A byte is an integer, a character is a one-character string and a Rust  *)
(* String is a sequence of characters, so that decoding bytes to text and  *)
(* encoding text to bytes are real conversions.  The serial port is the    *)
(* environment: each port.read / port.write / port.set_timeout returns one *)
(* of the outcomes the serialport trait allows, chosen nondeterministically.*)
(***************************************************************************)
EXTENDS Integers, Sequences, FiniteSets, TLC

\* Longest desired_response / response prefix explored.
MaxLen == 2
\* Length of Serial::read_buffer (vec![0; 1000] in the code, scaled down).
BufSize == 2
\* Saturation value of the history counters (reads, writes, appends).
MaxCount == 2

VARIABLES
    port_timeout,      \* self.port.timeout()
    read_buffer,       \* self.read_buffer
    pc,                \* position of the running call
    op,                \* the public function that is running
    text,              \* argument text
    desired_response,  \* argument desired_response
    settings,          \* argument settings / format
    timeout,           \* argument timeout
    old_timeout,       \* local old_timeout
    response,          \* local response
    last,              \* result of the last self.read() / port.read()
    result,            \* value returned by the call
    arrived,           \* history: bytes the port delivered during this call
    reads,             \* history: port.read calls of this call (saturating)
    writes,            \* history: port.write calls of this call (saturating)
    wrote,             \* history: bytes handed to the last port.write
    write_outcome,     \* history: outcome of the last port.write
    appends,           \* history: push_str calls of this call (saturating)
    texts,             \* history: reads of this call that gave non-empty text
    pre_timeout,       \* history: port timeout when the call was entered
    reused,            \* history: an earlier call ran on this instance
    p_pc,              \* position of the analyse_tokens call
    tokens,            \* argument tokens of analyse_tokens
    lines,             \* local lines
    line_index,        \* position of `for line in lines`
    test_suites,       \* local test_suites
    parsed,            \* value returned by analyse_tokens
    runs               \* history: lines handed to a grammar state machine

serial_vars == <<port_timeout, read_buffer, pc, op, text, desired_response,
                 settings, timeout, old_timeout, response, last, result,
                 arrived, reads, writes, wrote, write_outcome, appends, texts,
                 pre_timeout, reused>>

parser_vars == <<p_pc, tokens, lines, line_index, test_suites, parsed, runs>>

vars == <<serial_vars, parser_vars>>

----------------------------------------------------------------------------
\* Characters, bytes and the codec helpers

Bytes == {75, 107}

Ascii == { <<0, "NUL">>, <<52, "4">>, <<54, "6">>, <<66, "B">>, <<75, "K">>,
           <<98, "b">>, <<107, "k">> }

char_of(b) == (CHOOSE p \in Ascii : p[1] = b)[2]

byte_of(c) == (CHOOSE p \in Ascii : p[2] = c)[1]

Upper == <<"A", "B", "C", "D", "E", "F", "K">>

Lower == <<"a", "b", "c", "d", "e", "f", "k">>

LowerChar(c) ==
    IF \E i \in 1..Len(Upper) : Upper[i] = c
    THEN Lower[CHOOSE i \in 1..Len(Upper) : Upper[i] = c]
    ELSE c

to_lowercase(s) == [i \in 1..Len(s) |-> LowerChar(s[i])]

HexDigits == <<"0", "1", "2", "3", "4", "5", "6", "7", "8", "9",
               "A", "B", "C", "D", "E", "F">>

IsHexChar(c) == \E n \in 1..16 : HexDigits[n] = c \/ LowerChar(HexDigits[n]) = c

HexVal(c) == (CHOOSE n \in 1..16 : HexDigits[n] = c \/ LowerChar(HexDigits[n]) = c) - 1

as_bytes(s) == [i \in 1..Len(s) |-> byte_of(s[i])]

bytes_from_hex_string(s) ==
    IF Len(s) % 2 = 0 /\ \A i \in 1..Len(s) : IsHexChar(s[i])
    THEN [ok |-> TRUE,
          bytes |-> [i \in 1..(Len(s) \div 2) |->
                        16 * HexVal(s[2 * i - 1]) + HexVal(s[2 * i])]]
    ELSE [ok |-> FALSE, bytes |-> <<>>]

radix_string(bytes, format) ==
    IF format = "Text"
    THEN [i \in 1..Len(bytes) |-> char_of(bytes[i])]
    ELSE [i \in 1..(2 * Len(bytes)) |->
            IF i % 2 = 1
            THEN HexDigits[(bytes[(i + 1) \div 2] \div 16) + 1]
            ELSE HexDigits[(bytes[i \div 2] % 16) + 1]]

SeqsUpTo(S, n) == UNION { [1..k -> S] : k \in 0..n }

IsPrefix(p, s) == Len(p) <= Len(s) /\ SubSeq(s, 1, Len(p)) = p

\* str::starts_with
starts_with(s, p) == IsPrefix(p, s)

----------------------------------------------------------------------------
\* Inputs of the calls

TextChars == { char_of(b) : b \in Bytes }

Chunks == SeqsUpTo(Bytes, BufSize)

HexTexts == { radix_string(<<b>>, "Hex") : b \in Bytes }

Desired == SeqsUpTo(TextChars, MaxLen)
           \cup HexTexts \cup { to_lowercase(h) : h \in HexTexts }

Formats == {"Text", "Hex"}

Texts == { <<"K">>, <<"4", "B">> }

Timeouts == {1, 2}

CheckSettings == [ignore_case : BOOLEAN, input_format : Formats, output_format : Formats]

ReadSettings == { s \in CheckSettings : s.input_format = "Text" }

DefaultSettings == [ignore_case |-> FALSE, input_format |-> "Text", output_format |-> "Text"]

CheckOps == {"check_with_settings", "check_read_with_settings"}

TimeoutOps == {"read_with_timeout", "read_str_with_timeout",
               "read_str_with_format_and_timeout"}

ErrorKinds == {"TimedOut", "Other"}

NoResult == [tag |-> "None", matched |-> FALSE, response |-> <<>>, data |-> <<>>, kind |-> "-"]

OkCheck(m, r) == [tag |-> "Ok", matched |-> m, response |-> r, data |-> <<>>, kind |-> "-"]

OkStr(r) == [tag |-> "Ok", matched |-> FALSE, response |-> r, data |-> <<>>, kind |-> "-"]

OkData(d) == [tag |-> "Ok", matched |-> FALSE, response |-> <<>>, data |-> d, kind |-> "-"]

OkUnit == [tag |-> "Ok", matched |-> FALSE, response |-> <<>>, data |-> <<>>, kind |-> "-"]

Err(k) == [tag |-> "Err", matched |-> FALSE, response |-> <<>>, data |-> <<>>, kind |-> k]

NoRead == [kind |-> "-", len |-> 0]

Bump(n) == IF n < MaxCount THEN n + 1 ELSE n

\* The count of non-empty reads saturates above every length explored.
BumpText(n) == IF n <= MaxLen THEN n + 1 ELSE n

----------------------------------------------------------------------------
\* No analyse_tokens call is made while the Serial calls are explored.
ParserOff ==
    /\ p_pc = "off"
    /\ tokens = <<>>
    /\ lines = <<>>
    /\ line_index = 1
    /\ test_suites = <<>>
    /\ parsed = [tag |-> "None"]
    /\ runs = 0

SerialInit ==
    /\ port_timeout \in Timeouts
    /\ read_buffer = [i \in 1..BufSize |-> 0]
    /\ pc = "idle"
    /\ op = "-"
    /\ text = <<>>
    /\ desired_response = <<>>
    /\ settings = DefaultSettings
    /\ timeout = 0
    /\ old_timeout = 0
    /\ response = <<>>
    /\ last = NoRead
    /\ result = NoResult
    /\ arrived = <<>>
    /\ reads = 0
    /\ writes = 0
    /\ wrote = <<>>
    /\ write_outcome = "-"
    /\ appends = 0
    /\ texts = 0
    /\ pre_timeout = port_timeout
    /\ reused = FALSE

Init == SerialInit /\ ParserOff

\* A caller may call only when no call is running on the instance.
CanCall == pc = "idle"

\* Entry of a public function: the arguments are bound, the history of the
\* call starts.
Enter(o, t, d, s, to, start) ==
    /\ CanCall
    /\ op' = o
    /\ text' = t
    /\ desired_response' = d
    /\ settings' = s
    /\ timeout' = to
    /\ pre_timeout' = port_timeout
    /\ pc' = start
    /\ UNCHANGED <<port_timeout, read_buffer, old_timeout, response, last,
                   result, arrived, reads, writes, wrote, write_outcome,
                   appends, texts, reused>>
    /\ UNCHANGED parser_vars

\* The caller has taken the returned value: the call's arguments and locals
\* are gone, the Serial instance (port and read_buffer) lives on.
Return ==
    /\ pc = "done"
    /\ pc' = "idle"
    /\ op' = "-"
    /\ text' = <<>>
    /\ desired_response' = <<>>
    /\ settings' = DefaultSettings
    /\ timeout' = 0
    /\ old_timeout' = 0
    /\ response' = <<>>
    /\ last' = NoRead
    /\ result' = NoResult
    /\ arrived' = <<>>
    /\ reads' = 0
    /\ writes' = 0
    /\ wrote' = <<>>
    /\ write_outcome' = "-"
    /\ appends' = 0
    /\ texts' = 0
    /\ pre_timeout' = port_timeout
    /\ reused' = TRUE
    /\ UNCHANGED <<port_timeout, read_buffer>>
    /\ UNCHANGED parser_vars

args == <<op, text, desired_response, settings, timeout, pre_timeout, reused>>

----------------------------------------------------------------------------
\* Serial::write_format and Serial::check_with_settings

Encode(t, format) ==
    IF format = "Hex"
    THEN bytes_from_hex_string(t)
    ELSE [ok |-> TRUE, bytes |-> as_bytes(t)]

WriteOutcomes == {"Ok"} \cup ErrorKinds

\* Mutant of WriteFormatResult: a write timeout is swallowed.
WriteFormatResultLenient(outcome) ==
    IF outcome \in {"Ok", "TimedOut"} THEN OkUnit ELSE Err(outcome)

\* self.port.write(bytes.as_slice())?  : every error is returned to the caller.
WriteFormatResult(outcome) ==
    IF outcome = "Ok" THEN OkUnit ELSE Err(outcome)

CallCheck(t, d, s) == Enter("check_with_settings", t, d, s, 0, "write")

\* write_format(text, &settings.input_format)? and, on Ok, the entry of
\* check_read_with_settings (let mut response = String::new()).
WriteFormat ==
    /\ pc = "write"
    /\ LET enc == Encode(text, settings.input_format) IN
       IF ~enc.ok
       THEN /\ pc' = "panicked"
            /\ UNCHANGED <<result, writes, wrote, write_outcome, response>>
       ELSE \E outcome \in WriteOutcomes :
              /\ writes' = Bump(writes)
              /\ wrote' = enc.bytes
              /\ write_outcome' = outcome
              /\ IF WriteFormatResult(outcome).tag = "Ok"
                 THEN /\ pc' = "loop"
                      /\ response' = <<>>
                      /\ UNCHANGED result
                 ELSE /\ pc' = "done"
                      /\ result' = WriteFormatResult(outcome)
                      /\ UNCHANGED response
    /\ UNCHANGED <<port_timeout, read_buffer, old_timeout, last, arrived, reads,
                   appends, texts>>
    /\ UNCHANGED args
    /\ UNCHANGED parser_vars

----------------------------------------------------------------------------
\* Serial::read and Serial::check_read_with_settings

CallCheckRead(d, s) == Enter("check_read_with_settings", <<>>, d, s, 0, "loop")

\* port.read(&mut buffer) returning Ok(Len(chunk)): the chunk overwrites the
\* front of the buffer, the rest keeps what earlier reads left there.
PortRead(buf, chunk) ==
    [i \in 1..Len(buf) |-> IF i <= Len(chunk) THEN chunk[i] ELSE buf[i]]

\* Mutant of ReadSlice: the whole buffer, stale bytes included.
ReadSliceWhole(buf, length) == buf

\* &self.read_buffer[..length]
ReadSlice(buf, length) == SubSeq(buf, 1, length)

\* self.read() at the top of the loop
Read ==
    /\ pc = "loop"
    /\ reads' = Bump(reads)
    /\ \/ \E chunk \in Chunks :
            /\ read_buffer' = PortRead(read_buffer, chunk)
            /\ last' = [kind |-> "Ok", len |-> Len(chunk)]
            /\ arrived' = arrived \o chunk
       \/ \E k \in ErrorKinds :
            /\ last' = [kind |-> k, len |-> 0]
            /\ UNCHANGED <<read_buffer, arrived>>
    /\ pc' = "match"
    /\ UNCHANGED <<port_timeout, old_timeout, response, result, writes, wrote,
                   write_outcome, appends, texts>>
    /\ UNCHANGED args
    /\ UNCHANGED parser_vars

\* Mutant of NewText: ignore_case is not applied to the chunk.
NewTextKeepsCase(bytes, s) == radix_string(bytes, s.output_format)

\* new_text: the chunk decoded and, with ignore_case, lower-cased
NewText(bytes, s) ==
    LET decoded == radix_string(bytes, s.output_format) IN
    IF s.ignore_case THEN to_lowercase(decoded) ELSE decoded

\* Mutant of LoopBreaks: the prefix test is missing.
LoopBreaksOnMatchOnly(desired, r) == desired = r

\* Mutant of LoopBreaks: the equality test is missing.
LoopBreaksOnMismatchOnly(desired, r) == starts_with(desired, r) = FALSE

\* The two break conditions of the Ok arm
LoopBreaks(desired, r) ==
    \/ desired = r
    \/ starts_with(desired, r) = FALSE

\* Ok((desired_response == response, response))
ReturnValue(desired, r) == OkCheck(desired = r, r)

\* Ok(bytes) arm of the match
OnBytes ==
    /\ pc = "match"
    /\ last.kind = "Ok"
    /\ LET r == response \o NewText(ReadSlice(read_buffer, last.len), settings) IN
         /\ response' = r
         /\ appends' = Bump(appends)
         /\ texts' = IF last.len > 0 THEN BumpText(texts) ELSE texts
         /\ IF LoopBreaks(desired_response, r)
            THEN /\ pc' = "done"
                 /\ result' = ReturnValue(desired_response, r)
            ELSE /\ pc' = "loop"
                 /\ UNCHANGED result
    /\ UNCHANGED <<port_timeout, read_buffer, old_timeout, last, arrived, reads,
                   writes, wrote, write_outcome>>
    /\ UNCHANGED args
    /\ UNCHANGED parser_vars

\* Mutant of TimeoutValue: a timeout always ends the loop normally.
TimeoutValueAlwaysOk(desired, r) == ReturnValue(desired, r)

\* Mutant of TimeoutValue: a timeout is always an error.
TimeoutValueAlwaysErr(desired, r) == Err("TimedOut")

\* Mutant of TimeoutValue: a timeout with nothing expected counts as a match.
TimeoutValueEmptyExpectationOk(desired, r) ==
    IF Len(r) = 0 /\ desired # <<>> THEN Err("TimedOut") ELSE ReturnValue(desired, r)

\* What the TimedOut arm returns
TimeoutValue(desired, r) ==
    IF Len(r) = 0 THEN Err("TimedOut") ELSE ReturnValue(desired, r)

\* Err(ref e) if e.kind() == io::ErrorKind::TimedOut
OnTimeout ==
    /\ pc = "match"
    /\ last.kind = "TimedOut"
    /\ pc' = "done"
    /\ result' = TimeoutValue(desired_response, response)
    /\ UNCHANGED <<port_timeout, read_buffer, old_timeout, response, last,
                   arrived, reads, writes, wrote, write_outcome, appends,
                   texts>>
    /\ UNCHANGED args
    /\ UNCHANGED parser_vars

\* Mutant of ErrorValue: other errors are handled like a timeout.
ErrorValueLikeTimeout(k, desired, r) ==
    IF Len(r) = 0 THEN Err(k) ELSE ReturnValue(desired, r)

\* What the last arm returns
ErrorValue(k, desired, r) == Err(k)

\* Err(e) => return Err(e)
OnError ==
    /\ pc = "match"
    /\ last.kind \notin {"Ok", "TimedOut"}
    /\ pc' = "done"
    /\ result' = ErrorValue(last.kind, desired_response, response)
    /\ UNCHANGED <<port_timeout, read_buffer, old_timeout, response, last,
                   arrived, reads, writes, wrote, write_outcome, appends,
                   texts>>
    /\ UNCHANGED args
    /\ UNCHANGED parser_vars

----------------------------------------------------------------------------
\* read_with_timeout, read_str_with_timeout, read_str_with_format_and_timeout

CallReadTimeout(o, format, t) ==
    Enter(o, <<>>, <<>>, [DefaultSettings EXCEPT !.output_format = format], t, "set")

\* str::from_utf8(..).unwrap().to_string()
from_utf8(bytes) == [i \in 1..Len(bytes) |-> char_of(bytes[i])]

\* let old_timeout = self.port.timeout(); self.port.set_timeout(timeout)?;
SetTimeout ==
    /\ pc = "set"
    /\ old_timeout' = port_timeout
    /\ \/ /\ port_timeout' = timeout
          /\ pc' = "tread"
          /\ UNCHANGED result
       \/ /\ pc' = "done"
          /\ result' = Err("Other")
          /\ UNCHANGED port_timeout
    /\ UNCHANGED <<read_buffer, response, last, arrived, reads, writes, wrote,
                   write_outcome, appends, texts>>
    /\ UNCHANGED args
    /\ UNCHANGED parser_vars

\* What the three functions do when port.read fails: the ? operator returns
\* the error at once.
ReadFailed(k) ==
    /\ pc' = "done"
    /\ result' = Err(k)
    /\ UNCHANGED port_timeout

\* let length = self.port.read(&mut self.read_buffer)?;
TimedRead ==
    /\ pc = "tread"
    /\ reads' = Bump(reads)
    /\ \/ \E chunk \in Chunks :
            /\ read_buffer' = PortRead(read_buffer, chunk)
            /\ last' = [kind |-> "Ok", len |-> Len(chunk)]
            /\ arrived' = arrived \o chunk
            /\ pc' = "restore"
            /\ UNCHANGED <<result, port_timeout>>
       \/ \E k \in ErrorKinds :
            /\ last' = [kind |-> k, len |-> 0]
            /\ ReadFailed(k)
            /\ UNCHANGED <<read_buffer, arrived>>
    /\ UNCHANGED <<old_timeout, response, writes, wrote, write_outcome, appends,
                   texts>>
    /\ UNCHANGED args
    /\ UNCHANGED parser_vars

\* The Ok value of each of the three functions
TimedValue(o, data, format) ==
    CASE o = "read_with_timeout" -> OkData(data)
      [] o = "read_str_with_timeout" -> OkStr(from_utf8(data))
      [] OTHER -> OkStr(radix_string(data, format))

\* self.port.set_timeout(old_timeout)?; Ok(..)
RestoreTimeout ==
    /\ pc = "restore"
    /\ pc' = "done"
    /\ \/ /\ port_timeout' = old_timeout
          /\ result' = TimedValue(op, ReadSlice(read_buffer, last.len),
                                  settings.output_format)
       \/ /\ result' = Err("Other")
          /\ UNCHANGED port_timeout
    /\ UNCHANGED <<read_buffer, old_timeout, response, last, arrived, reads,
                   writes, wrote, write_outcome, appends, texts>>
    /\ UNCHANGED args
    /\ UNCHANGED parser_vars

----------------------------------------------------------------------------
\* send_text (src/send.rs)

CallSendText(t, format) ==
    Enter("send_text", t, <<>>, [DefaultSettings EXCEPT !.input_format = format], 0, "send")

\* The match on port.write: Ok and a timeout both fall through to Ok(())
SendTextResult(outcome) ==
    IF outcome \in {"Ok", "TimedOut"} THEN OkUnit ELSE Err(outcome)

SendText ==
    /\ pc = "send"
    /\ LET enc == Encode(text, settings.input_format) IN
       IF ~enc.ok
       THEN /\ pc' = "panicked"
            /\ UNCHANGED <<result, writes, wrote, write_outcome>>
       ELSE \E outcome \in WriteOutcomes :
              /\ writes' = Bump(writes)
              /\ wrote' = enc.bytes
              /\ write_outcome' = outcome
              /\ pc' = "done"
              /\ result' = SendTextResult(outcome)
    /\ UNCHANGED <<port_timeout, read_buffer, old_timeout, response, last,
                   arrived, reads, appends, texts>>
    /\ UNCHANGED args
    /\ UNCHANGED parser_vars

----------------------------------------------------------------------------
\* The steps of a running call
Step ==
    \/ WriteFormat
    \/ Read
    \/ OnBytes
    \/ OnTimeout
    \/ OnError
    \/ SetTimeout
    \/ TimedRead
    \/ RestoreTimeout
    \/ SendText

Next ==
    \/ \E t \in Texts, d \in Desired, s \in CheckSettings : CallCheck(t, d, s)
    \/ \E d \in Desired, s \in ReadSettings : CallCheckRead(d, s)
    \/ \E o \in TimeoutOps, f \in Formats, t \in Timeouts : CallReadTimeout(o, f, t)
    \/ \E t \in Texts, f \in Formats : CallSendText(t, f)
    \/ Step
    \/ Return

Spec == Init /\ [][Next]_vars

\* A call that has started keeps running: the program is single-threaded and
\* every port operation returns (bounded by the port's timeout).  Nothing
\* obliges the caller to make another call.
LiveSpec == Spec /\ WF_vars(Step)

----------------------------------------------------------------------------
\* Properties of check_with_settings / check_read_with_settings

InCheck == op \in CheckOps

\* C1: as soon as the accumulated response is not a prefix of
\* desired_response the loop has stopped: the call has returned
\* Ok((false, response)) with the response accumulated so far, and no read
\* can follow (Read needs pc = "loop").
C1_MismatchStops ==
    (InCheck /\ ~IsPrefix(response, desired_response))
        => (pc = "done" /\ result = OkCheck(FALSE, response))

\* The spec's example: the first chunk already mismatches ("ER" against "OK").
C1_Witness ==
    /\ InCheck
    /\ pc = "done"
    /\ reads = 1
    /\ desired_response = <<"K", "K">>
    /\ result = OkCheck(FALSE, <<"k", "K">>)

C3_EmptyTimeoutIsError ==
    (InCheck /\ pc = "done" /\ last.kind = "TimedOut" /\ response = <<>>)
        => result = Err("TimedOut")

\* The first read times out while something non-empty is expected.
C3_Witness ==
    /\ InCheck
    /\ pc = "done"
    /\ last.kind = "TimedOut"
    /\ response = <<>>
    /\ desired_response # <<>>
    /\ result.tag = "Err"

\* C4: a timeout after a non-empty response has been accumulated is no
\* error: the call returns Ok((response == desired_response, response)) with
\* exactly what the port delivered before the timeout.
C4_LateTimeoutIsOk ==
    (InCheck /\ pc = "done" /\ last.kind = "TimedOut" /\ response # <<>>)
        => /\ result = OkCheck(response = desired_response, response)
           /\ response = NewText(arrived, settings)

\* One chunk, a proper prefix of the expectation, then the timeout.
C4_Witness ==
    /\ InCheck
    /\ pc = "done"
    /\ last.kind = "TimedOut"
    /\ Len(response) = 1
    /\ Len(desired_response) = 2
    /\ result.tag = "Ok"

\* C5: a read error other than a timeout ends the call with that error,
\* whatever has been accumulated; the partial response is not returned.
C5_OtherErrorPropagates ==
    (InCheck /\ pc = "done" /\ last.kind = "Other")
        => result = Err("Other")

\* The error arrives after a chunk has been accumulated.
C5_Witness ==
    /\ InCheck
    /\ pc = "done"
    /\ last.kind = "Other"
    /\ response # <<>>
    /\ result.tag = "Err"

\* C6: when one of the three read-with-timeout functions has returned, on
\* whatever path, the port's timeout is the one it had before the call.
C6_TimeoutRestored ==
    (op \in TimeoutOps /\ pc = "done") => port_timeout = pre_timeout

\* C7: a timeout of the port write is no error for check_with_settings:
\* write_format returns Ok(()) and the call goes on to the read phase.
C7_WriteTimeoutIsSuccess ==
    (op = "check_with_settings" /\ write_outcome = "TimedOut")
        => \/ pc \in {"loop", "match"}
           \/ pc = "done" /\ reads >= 1

\* C8: check_with_settings hands the encoded input to exactly one port
\* write, before the first read; a write that returns an error ends the call
\* with that error and without any read.
C8_WriteBeforeRead ==
    op = "check_with_settings" =>
        /\ reads >= 1 => (writes = 1 /\ write_outcome = "Ok")
        /\ pc \in {"loop", "match", "done"}
              => (writes = 1 /\ wrote = Encode(text, settings.input_format).bytes)
        /\ write_outcome \in ErrorKinds
              => (reads = 0 /\ pc = "done" /\ result = Err(write_outcome))

\* A hex input written once, then a read phase that ran to its end.
C8_Witness ==
    /\ op = "check_with_settings"
    /\ pc = "done"
    /\ settings.input_format = "Hex"
    /\ wrote = <<75>>
    /\ writes = 1
    /\ reads >= 1
    /\ result.tag = "Ok"

\* C9: the response a check returns is the decoded (and, with ignore_case,
\* lower-cased) bytes the port delivered during this call, in arrival
\* order, and nothing else: nothing an earlier call read or accumulated.
C9_ResponseIsThisCallsChunks ==
    (InCheck /\ pc = "done" /\ result.tag = "Ok")
        => result.response = NewText(arrived, settings)

\* A later call on the instance: two one-byte chunks, while read_buffer
\* still holds a byte that an earlier call read.
C9_Witness ==
    /\ InCheck
    /\ pc = "done"
    /\ reused
    /\ settings.ignore_case
    /\ reads = 2
    /\ arrived = <<75, 107>>
    /\ read_buffer[1] = 107
    /\ read_buffer[2] # 0
    /\ result = OkCheck(FALSE, <<"k", "k">>)

\* C10: every call of check_read_with_settings eventually returns, whatever
\* each port read returns (some bytes, possibly none, a timeout or an error).
C10_CheckReadReturns ==
    (InCheck /\ pc \in {"loop", "match"}) ~> (pc = "done")

\* The read phase of a check has been entered and the call has returned.
ReadPhaseDone ==
    /\ InCheck
    /\ pc = "done"
    /\ (op = "check_with_settings" => write_outcome = "Ok")

\* C11: check_read_with_settings never returns without having issued a
\* read; with an empty desired_response exactly one read is issued and the
\* outcome is (true, "") after a zero-byte read, (false, chunk) after a
\* non-empty read and the timeout error when that read times out.
C11_AtLeastOneRead ==
    ReadPhaseDone =>
        /\ reads >= 1
        /\ desired_response = <<>> =>
              /\ reads = 1
              /\ (last.kind = "Ok" /\ last.len = 0) => result = OkCheck(TRUE, <<>>)
              /\ (last.kind = "Ok" /\ last.len > 0)
                    => /\ result = OkCheck(FALSE, NewText(arrived, settings))
                       /\ result.response # <<>>
              /\ last.kind = "TimedOut" => result = Err("TimedOut")

\* Nothing is expected and the only read delivers no byte.
C11_Witness ==
    /\ ReadPhaseDone
    /\ desired_response = <<>>
    /\ reads = 1
    /\ last = [kind |-> "Ok", len |-> 0]
    /\ result = OkCheck(TRUE, <<>>)

----------------------------------------------------------------------------
\* The parser (src/parser/mod.rs): tokens, the two grammars, the analyser

\* A token as the lexer hands it over.
Token(tt, v, l, c) == [token_type |-> tt, value |-> v, line |-> l, column |-> c]

LineKinds == {"Identifier", "LeftGroupParenthesis", "RightGroupParenthesis",
              "LeftTestParenthesis", "RightTestParenthesis", "ContentSeparator",
              "OptionSeparator", "DirectionSeparator", "FormatSpecifier", "Content"}

\* Mutant of group_state_machine: state 4 tolerates a further identifier.
group_state_machine_loose(state, token) ==
    CASE state = 1 /\ token.token_type = "LeftGroupParenthesis" -> 2
      [] state = 2 /\ token.token_type = "Identifier" -> 3
      [] state = 3 /\ token.token_type = "RightGroupParenthesis" -> 4
      [] state = 4 /\ token.token_type = "Identifier" -> 4
      [] OTHER -> 0

\* [ Identifier ]
group_state_machine(state, token) ==
    CASE state = 1 /\ token.token_type = "LeftGroupParenthesis" -> 2
      [] state = 2 /\ token.token_type = "Identifier" -> 3
      [] state = 3 /\ token.token_type = "RightGroupParenthesis" -> 4
      [] OTHER -> 0

\* The transition function of the test-case grammar.
test_state_machine(state, token) ==
    CASE state = 1 /\ token.token_type = "LeftTestParenthesis" -> 2
      [] state = 1 /\ token.token_type = "FormatSpecifier" -> 5
      [] state = 1 /\ token.token_type = "Content" -> 5
      [] state = 2 /\ token.token_type = "Identifier" -> 3
      [] state = 3 /\ token.token_type = "RightTestParenthesis" -> 4
      [] state = 3 /\ token.token_type = "ContentSeparator" -> 10
      [] state = 4 /\ token.token_type = "FormatSpecifier" -> 5
      [] state = 4 /\ token.token_type = "Content" -> 6
      [] state = 5 /\ token.token_type = "Content" -> 6
      [] state = 6 /\ token.token_type = "DirectionSeparator" -> 7
      [] state = 7 /\ token.token_type = "FormatSpecifier" -> 8
      [] state = 7 /\ token.token_type = "Content" -> 9
      [] state = 8 /\ token.token_type = "Content" -> 9
      [] state = 10 /\ token.token_type = "Identifier" -> 11
      [] state = 11 /\ token.token_type = "OptionSeparator" -> 12
      [] state = 12 /\ token.token_type = "Identifier" -> 13
      [] state = 13 /\ token.token_type = "RightTestParenthesis" -> 4
      [] state = 13 /\ token.token_type = "ContentSeparator" -> 10
      [] OTHER -> 0

\* FiniteStateMachine::new(1, vec!(4), ..) and FiniteStateMachine::new(1, vec!(9), ..)
Machine(m) ==
    IF m = "group"
    THEN [start |-> 1, accept |-> {4}]
    ELSE [start |-> 1, accept |-> {9}]

Transition(m, state, token) ==
    IF m = "group"
    THEN group_state_machine(state, token)
    ELSE test_state_machine(state, token)

\* FiniteStateMachine::run from token i on, in state `state`: Ok, or the
\* state before the rejecting transition with the rejecting token, or the
\* final state with the last token when the input ends outside the
\* accepting states.
RECURSIVE RunFrom(_, _, _, _)
RunFrom(m, state, toks, i) ==
    IF i > Len(toks)
    THEN IF state \in Machine(m).accept
         THEN [ok |-> TRUE, state |-> state, at |-> 0]
         ELSE [ok |-> FALSE, state |-> state, at |-> Len(toks)]
    ELSE LET next == Transition(m, state, toks[i]) IN
         IF next = 0
         THEN [ok |-> FALSE, state |-> state, at |-> i]
         ELSE RunFrom(m, next, toks, i + 1)

run(m, toks) == RunFrom(m, Machine(m).start, toks, 1)

\* parser::Error values; arg is the String payload ("" when there is none)
PErr(kind, arg, l, c) ==
    [tag |-> "Err", error |-> kind, arg |-> arg, line |-> l, column |-> c]

\* An index outside the vector: the Rust code panics.
Panic == [tag |-> "Panic"]

\* TestSuite::new(name)
NewTestSuite(name) == [name |-> name, tests |-> <<>>]

\* TestCaseSettings::default()
DefaultTestSettings ==
    [ignore_case |-> FALSE, input_format |-> "Text", output_format |-> "Text",
     delay |-> <<>>, timeout |-> 1000, repeat |-> 1]

\* TestCase::new_with_settings(name, input, output, settings)
NewTestCase(name, input, output, st) ==
    [name |-> name, input |-> input, output |-> output, settings |-> st]

\* str::trim on the identifier values used here
trim(v) == IF v = " colour" THEN "colour" ELSE v

\* string_util::get_boolean_value: <<b>> for Some(b), <<>> for None
get_boolean_value(v) ==
    CASE v = "true" -> <<TRUE>>
      [] v = "false" -> <<FALSE>>
      [] OTHER -> <<>>

\* string_util::get_time_value: <<milliseconds>> for Some, <<>> for None
get_time_value(v) ==
    CASE v = "200ms" -> <<200>>
      [] v = "2s" -> <<2000>>
      [] OTHER -> <<>>

\* value.parse::<u32>()
parse_u32(v) ==
    CASE v = "3" -> <<3>>
      [] v = "0" -> <<0>>
      [] OTHER -> <<>>

\* The match on the failing state in analyse_test_group
GroupError(state, token) ==
    CASE state = 2 -> PErr("MissingGroupIdentifier", "", token.line, token.column)
      [] state = 3 -> PErr("MissingClosingParenthesis", "]", token.line, token.column)
      [] OTHER -> PErr("UnknownError", "", token.line, token.column)

\* The Ok / Err(state, token) result r of the run on a group line
GroupResult(r, toks) ==
    IF ~r.ok
    THEN GroupError(r.state, toks[r.at])
    ELSE IF Len(toks) < 2
         THEN Panic
         ELSE [tag |-> "Ok", suite |-> NewTestSuite(toks[2].value)]

analyse_test_group(toks) == GroupResult(run("group", toks), toks)

\* Mutant of TestError: state 5 is reported like state 6.
TestErrorState5AsSeparator(state, token) ==
    CASE state = 2 -> PErr("MissingTestIdentifier", "", token.line, token.column)
      [] state = 3 -> PErr("MissingClosingParenthesis", ")", token.line, token.column)
      [] state = 4 -> PErr("MissingContent", "input", token.line, token.column)
      [] state \in {5, 6} -> PErr("MissingDirectionSeparator", "", token.line, token.column)
      [] state \in {7, 8} -> PErr("MissingContent", "output", token.line, token.column)
      [] OTHER -> PErr("UnknownError", "", token.line, token.column)

\* Mutant of TestError: a failure after an option value is a missing ')'.
TestErrorState13AsParenthesis(state, token) ==
    CASE state = 2 -> PErr("MissingTestIdentifier", "", token.line, token.column)
      [] state \in {3, 13} ->
           PErr("MissingClosingParenthesis", ")", token.line, token.column)
      [] state \in {4, 5} -> PErr("MissingContent", "input", token.line, token.column)
      [] state = 6 -> PErr("MissingDirectionSeparator", "", token.line, token.column)
      [] state \in {7, 8} -> PErr("MissingContent", "output", token.line, token.column)
      [] OTHER -> PErr("UnknownError", "", token.line, token.column)

\* The match on the failing state in analyse_test
TestError(state, token) ==
    CASE state = 2 -> PErr("MissingTestIdentifier", "", token.line, token.column)
      [] state = 3 -> PErr("MissingClosingParenthesis", ")", token.line, token.column)
      [] state \in {4, 5} -> PErr("MissingContent", "input", token.line, token.column)
      [] state = 6 -> PErr("MissingDirectionSeparator", "", token.line, token.column)
      [] state \in {7, 8} -> PErr("MissingContent", "output", token.line, token.column)
      [] OTHER -> PErr("UnknownError", "", token.line, token.column)

get_text_format(token) ==
    CASE token.value = "b" -> [tag |-> "Ok", format |-> "Binary"]
      [] token.value = "o" -> [tag |-> "Ok", format |-> "Octal"]
      [] token.value = "d" -> [tag |-> "Ok", format |-> "Decimal"]
      [] token.value = "h" -> [tag |-> "Ok", format |-> "Hex"]
      [] OTHER -> PErr("UnknownError", "", token.line, token.column)

\* Mutant of set_test_option: errors point at the name token.
set_test_option_name_position(toks, st) ==
    LET value == toks[3].value
        name == trim(toks[1].value)
        bad(kind) == PErr("InvalidOptionValue", kind, toks[1].line, toks[1].column)
    IN  CASE name = "ignore-case" ->
               IF get_boolean_value(value) # <<>>
               THEN [tag |-> "Ok", settings |-> [st EXCEPT !.ignore_case = get_boolean_value(value)[1]]]
               ELSE bad("boolean")
          [] name = "delay" ->
               IF get_time_value(value) # <<>>
               THEN [tag |-> "Ok", settings |-> [st EXCEPT !.delay = get_time_value(value)]]
               ELSE bad("time")
          [] name = "timeout" ->
               IF get_time_value(value) # <<>>
               THEN [tag |-> "Ok", settings |-> [st EXCEPT !.timeout = get_time_value(value)[1]]]
               ELSE bad("time")
          [] name = "repeat" ->
               IF parse_u32(value) # <<>>
               THEN [tag |-> "Ok", settings |-> [st EXCEPT !.repeat = parse_u32(value)[1]]]
               ELSE bad("number")
          [] OTHER -> PErr("UnknownTestOption", name, toks[3].line, toks[3].column)

\* set_test_option(&tokens[index + 1 .. index + 4], &mut settings):
\* toks = <<name, '=', value>>
set_test_option(toks, st) ==
    LET value == toks[3].value
        name == trim(toks[1].value)
        bad(kind) == PErr("InvalidOptionValue", kind, toks[3].line, toks[3].column)
    IN  CASE name = "ignore-case" ->
               IF get_boolean_value(value) # <<>>
               THEN [tag |-> "Ok", settings |-> [st EXCEPT !.ignore_case = get_boolean_value(value)[1]]]
               ELSE bad("boolean")
          [] name = "delay" ->
               IF get_time_value(value) # <<>>
               THEN [tag |-> "Ok", settings |-> [st EXCEPT !.delay = get_time_value(value)]]
               ELSE bad("time")
          [] name = "timeout" ->
               IF get_time_value(value) # <<>>
               THEN [tag |-> "Ok", settings |-> [st EXCEPT !.timeout = get_time_value(value)[1]]]
               ELSE bad("time")
          [] name = "repeat" ->
               IF parse_u32(value) # <<>>
               THEN [tag |-> "Ok", settings |-> [st EXCEPT !.repeat = parse_u32(value)[1]]]
               ELSE bad("number")
          [] OTHER -> PErr("UnknownTestOption", name, toks[1].line, toks[1].column)

\* The while loop over the options; index is the 1-based position of the
\* token the Rust code calls tokens[index].  AfterOption takes the result o
\* of set_test_option: `?` returns its error, otherwise index += 4.
RECURSIVE OptionLoop(_, _, _), AfterOption(_, _, _)
OptionLoop(toks, index, st) ==
    IF index > Len(toks)
    THEN Panic
    ELSE IF toks[index].token_type # "ContentSeparator"
    THEN [tag |-> "Ok", index |-> index, settings |-> st]
    ELSE IF index + 3 > Len(toks)
    THEN Panic
    ELSE AfterOption(toks, index,
                     set_test_option(SubSeq(toks, index + 1, index + 3), st))

AfterOption(toks, index, o) ==
    IF o.tag # "Ok" THEN o ELSE OptionLoop(toks, index + 4, o.settings)

\* The header once its options o are read: name = tokens[1].value, index += 1
HeaderResult(toks, o) ==
    IF o.tag # "Ok"
    THEN o
    ELSE [tag |-> "Ok", name |-> toks[2].value, index |-> o.index + 1,
          settings |-> o.settings]

\* if tokens[index] is LeftTestParenthesis { name, options, index += 1 }
ParseHeader(toks) ==
    IF Len(toks) < 1
    THEN Panic
    ELSE IF toks[1].token_type # "LeftTestParenthesis"
    THEN [tag |-> "Ok", name |-> "", index |-> 1, settings |-> DefaultTestSettings]
    ELSE IF Len(toks) < 2
    THEN Panic
    ELSE HeaderResult(toks, OptionLoop(toks, 3, DefaultTestSettings))

\* The content after a format specifier whose format is f
FormattedContent(toks, index, f) ==
    IF f.tag # "Ok"
    THEN f
    ELSE IF index + 1 > Len(toks)
         THEN Panic
         ELSE [tag |-> "Ok", format |-> f.format, value |-> toks[index + 1].value,
               index |-> index + 1]

\* An optional format specifier at index, then the content: the format (""
\* if none), the content value and the index of the content token
ParseContent(toks, index) ==
    IF index > Len(toks)
    THEN Panic
    ELSE IF toks[index].token_type = "FormatSpecifier"
    THEN FormattedContent(toks, index, get_text_format(toks[index]))
    ELSE [tag |-> "Ok", format |-> "", value |-> toks[index].value, index |-> index]

\* settings.input_format / settings.output_format are set where a specifier stood
SetFormats(st, input_format, output_format) ==
    [st EXCEPT !.input_format = IF input_format = "" THEN @ ELSE input_format,
               !.output_format = IF output_format = "" THEN @ ELSE output_format]

\* The test case from the header h, the input i and the output o
WithOutput(h, i, o) ==
    IF o.tag # "Ok"
    THEN o
    ELSE [tag |-> "Ok",
          test |-> NewTestCase(h.name, i.value, o.value,
                               SetFormats(h.settings, i.format, o.format))]

\* Mutant of WithInput: the index moves one token too far.
WithInputSkipsThree(toks, h, i) ==
    IF i.tag # "Ok" THEN i ELSE WithOutput(h, i, ParseContent(toks, i.index + 3))

\* index += 2 skips the input content and the direction separator
WithInput(toks, h, i) ==
    IF i.tag # "Ok" THEN i ELSE WithOutput(h, i, ParseContent(toks, i.index + 2))

WithHeader(toks, h) ==
    IF h.tag # "Ok" THEN h ELSE WithInput(toks, h, ParseContent(toks, h.index))

\* The positional extraction of analyse_test (after the grammar accepted)
BuildTestCase(toks) == WithHeader(toks, ParseHeader(toks))

\* The Ok / Err(state, token) result r of the run on a test line
TestResult(r, toks) ==
    IF ~r.ok
    THEN TestError(r.state, toks[r.at])
    ELSE BuildTestCase(toks)

analyse_test(toks) == TestResult(run("test", toks), toks)

----------------------------------------------------------------------------
\* Token streams handed to analyse_tokens

\* Most lines of a stream made of catalogue lines.
MaxLines == 3
\* Longest stream built token by token.
MaxTokens == 14

TokenKinds == LineKinds \cup {"Newline", "Illegal"}

TestStarts == {"LeftTestParenthesis", "FormatSpecifier", "Content"}

\* The grammar of a test case as the documentation states it:
\* [ '(' Identifier ( ',' Identifier '=' Identifier )* ')' ]
\* [FormatSpecifier] Content '->' [FormatSpecifier] Content
reference_grammar(state, token) ==
    LET k == token.token_type IN
    CASE state = 1 /\ k = "LeftTestParenthesis" -> 2
      [] state = 2 /\ k = "Identifier" -> 3
      [] state = 3 /\ k = "ContentSeparator" -> 10
      [] state = 10 /\ k = "Identifier" -> 11
      [] state = 11 /\ k = "OptionSeparator" -> 12
      [] state = 12 /\ k = "Identifier" -> 13
      [] state = 13 /\ k = "ContentSeparator" -> 10
      [] state \in {3, 13} /\ k = "RightTestParenthesis" -> 4
      [] state \in {1, 4} /\ k = "FormatSpecifier" -> 5
      [] state \in {1, 4, 5} /\ k = "Content" -> 6
      [] state = 6 /\ k = "DirectionSeparator" -> 7
      [] state = 7 /\ k = "FormatSpecifier" -> 8
      [] state \in {7, 8} /\ k = "Content" -> 9
      [] OTHER -> 0

Delta(m, state, token) ==
    IF m = "reference"
    THEN reference_grammar(state, token)
    ELSE Transition(m, state, token)

\* The state a machine is in after a whole token sequence (0 once rejected)
RECURSIVE StateAfter(_, _, _)
StateAfter(m, state, toks) ==
    IF toks = <<>> \/ state = 0
    THEN state
    ELSE StateAfter(m, Delta(m, state, Head(toks)), Tail(toks))

Matches(m, toks) == StateAfter(m, 1, toks) = (IF m = "group" THEN 4 ELSE 9)

\* A line can grow while it is empty or some grammar has not rejected it.
Alive(l) ==
    \/ l = <<>>
    \/ /\ l # <<>>
       /\ l[1].token_type = "LeftGroupParenthesis"
       /\ StateAfter("group", 1, l) # 0
    \/ /\ l # <<>>
       /\ l[1].token_type \in TestStarts
       /\ \/ StateAfter("test", 1, l) # 0
          \/ StateAfter("reference", 1, l) # 0

NewlineAt(toks) == {i \in 1..Len(toks) : toks[i].token_type = "Newline"}

\* Source line of the next token: one more than the newlines before it
LineNo(toks) == 1 + Cardinality(NewlineAt(toks))

\* The tokens after the last Newline
CurrentLine(toks) ==
    LET nl == NewlineAt(toks)
        from == IF nl = {} THEN 1 ELSE 1 + (CHOOSE i \in nl : \A j \in nl : j <= i)
    IN  SubSeq(toks, from, Len(toks))

OptionNames == {"ignore-case", "delay", "timeout", "repeat", " colour"}

\* The values tried for an option: one its name accepts, one it does not
OptionValues(name) ==
    CASE name = "ignore-case" -> {"true", "maybe"}
      [] name = "delay" -> {"200ms", "maybe"}
      [] name = "timeout" -> {"200ms", "3"}
      [] name = "repeat" -> {"3", "200ms"}
      [] OTHER -> {"true"}

Contents == <<"a", "b", "c">>

\* The values a token of a kind can carry where it stands in its line
Values(l, kind) ==
    LET prev == IF l = <<>> THEN "-" ELSE l[Len(l)].token_type
        nth == 1 + Cardinality({i \in 1..Len(l) : l[i].token_type = "Content"})
        after == \E i \in 1..Len(l) : l[i].token_type = "DirectionSeparator"
    IN  CASE kind = "Identifier" /\ prev = "ContentSeparator" -> OptionNames
          [] kind = "Identifier" /\ prev = "OptionSeparator" ->
               OptionValues(IF Len(l) > 1 THEN l[Len(l) - 1].value ELSE "")
          [] kind = "Identifier" /\ prev = "LeftGroupParenthesis" -> {"Foo"}
          [] kind = "Identifier" -> {"T1"}
          [] kind = "Content" -> {Contents[IF nth > 3 THEN 3 ELSE nth]}
          [] kind = "FormatSpecifier" -> {IF after THEN "b" ELSE "h"}
          [] kind = "LeftGroupParenthesis" -> {"["}
          [] kind = "RightGroupParenthesis" -> {"]"}
          [] kind = "LeftTestParenthesis" -> {"("}
          [] kind = "RightTestParenthesis" -> {")"}
          [] kind = "ContentSeparator" -> {","}
          [] kind = "OptionSeparator" -> {"="}
          [] kind = "DirectionSeparator" -> {"->"}
          [] kind = "Illegal" -> {"?"}
          [] OTHER -> {"\n"}

\* Whole lines, as <<kind, value>> pairs
GroupLine(name) ==
    << <<"LeftGroupParenthesis", "[">>, <<"Identifier", name>>,
       <<"RightGroupParenthesis", "]">> >>

\* "a" -> "b"
BareTestLine ==
    << <<"Content", "a">>, <<"DirectionSeparator", "->">>, <<"Content", "b">> >>

\* ( , ignore-case=maybe ) "x" -> "y"
NamelessOptionLine ==
    << <<"LeftTestParenthesis", "(">>, <<"ContentSeparator", ",">>,
       <<"Identifier", "ignore-case">>, <<"OptionSeparator", "=">>,
       <<"Identifier", "maybe">>, <<"RightTestParenthesis", ")">>,
       <<"Content", "x">>, <<"DirectionSeparator", "->">>, <<"Content", "y">> >>

\* ( T2, repeat=3, timeout=200ms ) h"41" -> h"4f4b"
TwoOptionLine ==
    << <<"LeftTestParenthesis", "(">>, <<"Identifier", "T2">>,
       <<"ContentSeparator", ",">>, <<"Identifier", "repeat">>,
       <<"OptionSeparator", "=">>, <<"Identifier", "3">>,
       <<"ContentSeparator", ",">>, <<"Identifier", "timeout">>,
       <<"OptionSeparator", "=">>, <<"Identifier", "200ms">>,
       <<"RightTestParenthesis", ")">>, <<"FormatSpecifier", "h">>,
       <<"Content", "41">>, <<"DirectionSeparator", "->">>,
       <<"FormatSpecifier", "h">>, <<"Content", "4f4b">> >>

\* ( T3, delay=maybe, colour=true ) o"x" -> d"y"
TwoFaultLine ==
    << <<"LeftTestParenthesis", "(">>, <<"Identifier", "T3">>,
       <<"ContentSeparator", ",">>, <<"Identifier", "delay">>,
       <<"OptionSeparator", "=">>, <<"Identifier", "maybe">>,
       <<"ContentSeparator", ",">>, <<"Identifier", " colour">>,
       <<"OptionSeparator", "=">>, <<"Identifier", "true">>,
       <<"RightTestParenthesis", ")">>, <<"FormatSpecifier", "o">>,
       <<"Content", "x">>, <<"DirectionSeparator", "->">>,
       <<"FormatSpecifier", "d">>, <<"Content", "y">> >>

\* b"p" -> "q"
FormatLine ==
    << <<"FormatSpecifier", "b">>, <<"Content", "p">>,
       <<"DirectionSeparator", "->">>, <<"Content", "q">> >>

\* ( T1 ) "r" -> "s"
NamedLine ==
    << <<"LeftTestParenthesis", "(">>, <<"Identifier", "T1">>,
       <<"RightTestParenthesis", ")">>, <<"Content", "r">>,
       <<"DirectionSeparator", "->">>, <<"Content", "s">> >>

Catalogue ==
    { <<>>,
      GroupLine("Foo"),
      GroupLine("Bar"),
      BareTestLine,
      FormatLine,
      NamedLine,
      NamelessOptionLine,
      TwoOptionLine,
      TwoFaultLine,
      << <<"LeftGroupParenthesis", "[">>, <<"RightGroupParenthesis", "]">> >>,
      << <<"DirectionSeparator", "->">>, <<"Content", "b">> >>,
      << <<"Illegal", "#">> >>,
      << <<"Content", "a">>, <<"Illegal", "?">> >> }

\* The tokens of a catalogue line standing on source line ln
Place(entry, ln) ==
    [i \in 1..Len(entry) |-> Token(entry[i][1], entry[i][2], ln, i)]

----------------------------------------------------------------------------
\* analyse_tokens

\* Mutant of SplitLines: an Illegal token is kept in its line.
RECURSIVE SplitLinesKeepIllegal(_, _, _, _)
SplitLinesKeepIllegal(toks, i, line, ls) ==
    IF i > Len(toks)
    THEN [tag |-> "Ok", lines |-> ls]
    ELSE IF toks[i].token_type = "Newline"
    THEN IF Len(line) > 0
         THEN SplitLinesKeepIllegal(toks, i + 1, <<>>, Append(ls, line))
         ELSE SplitLinesKeepIllegal(toks, i + 1, line, ls)
    ELSE SplitLinesKeepIllegal(toks, i + 1, Append(line, toks[i]), ls)

\* Mutant of SplitLines: the line still open at the end of the stream is kept.
RECURSIVE SplitLinesFlushLast(_, _, _, _)
SplitLinesFlushLast(toks, i, line, ls) ==
    IF i > Len(toks)
    THEN [tag |-> "Ok", lines |-> IF Len(line) > 0 THEN Append(ls, line) ELSE ls]
    ELSE IF toks[i].token_type = "Illegal"
    THEN PErr("IllegalToken", toks[i].value, toks[i].line, toks[i].column)
    ELSE IF toks[i].token_type = "Newline"
    THEN IF Len(line) > 0
         THEN SplitLinesFlushLast(toks, i + 1, <<>>, Append(ls, line))
         ELSE SplitLinesFlushLast(toks, i + 1, line, ls)
    ELSE SplitLinesFlushLast(toks, i + 1, Append(line, toks[i]), ls)

\* `for token in tokens`: the split of the stream into lines
RECURSIVE SplitLines(_, _, _, _)
SplitLines(toks, i, line, ls) ==
    IF i > Len(toks)
    THEN [tag |-> "Ok", lines |-> ls]
    ELSE IF toks[i].token_type = "Illegal"
    THEN PErr("IllegalToken", toks[i].value, toks[i].line, toks[i].column)
    ELSE IF toks[i].token_type = "Newline"
    THEN IF Len(line) > 0
         THEN SplitLines(toks, i + 1, <<>>, Append(ls, line))
         ELSE SplitLines(toks, i + 1, line, ls)
    ELSE SplitLines(toks, i + 1, Append(line, toks[i]), ls)

\* Mutant of Dispatch: an Identifier may start a test line.
DispatchIdentifierAsTest(line) ==
    CASE line = <<>> -> "panic"
      [] line # <<>> /\ line[1].token_type = "LeftGroupParenthesis" -> "group"
      [] line # <<>> /\ line[1].token_type \in TestStarts \cup {"Identifier"} -> "test"
      [] OTHER -> "invalid"

\* The classification of a line by its first token
Dispatch(line) ==
    CASE line = <<>> -> "panic"
      [] line # <<>> /\ line[1].token_type = "LeftGroupParenthesis" -> "group"
      [] line # <<>> /\ line[1].token_type \in TestStarts -> "test"
      [] OTHER -> "invalid"

\* Mutant of PushTest: the test goes to the first suite.
PushTestFirst(suites, test) ==
    LET ss == IF suites = <<>> THEN <<NewTestSuite("")>> ELSE suites
    IN  [ss EXCEPT ![1].tests = Append(@, test)]

\* The Ok(test) arm: an implicit suite if there is none, then push to the last
PushTest(suites, test) ==
    LET ss == IF suites = <<>> THEN <<NewTestSuite("")>> ELSE suites
    IN  [ss EXCEPT ![Len(ss)].tests = Append(@, test)]

\* Mutant of GroupPushed: a group whose name is already there adds no suite.
GroupPushedMerging(r, suites) ==
    IF r.tag = "Ok"
    THEN [tag |-> "Ok",
          suites |-> IF \E i \in 1..Len(suites) : suites[i].name = r.suite.name
                     THEN suites
                     ELSE Append(suites, r.suite)]
    ELSE r

\* Ok(test_suite) => test_suites.push(test_suite), Err(err) => return Err(err)
GroupPushed(r, suites) ==
    IF r.tag = "Ok" THEN [tag |-> "Ok", suites |-> Append(suites, r.suite)] ELSE r

\* Ok(test) => push to the last suite, Err(err) => return Err(err)
TestPushed(r, suites) ==
    IF r.tag = "Ok" THEN [tag |-> "Ok", suites |-> PushTest(suites, r.test)] ELSE r

\* The body of `for line in lines` for a line classified as kind
Dispatched(kind, line, suites) ==
    CASE kind = "panic" -> Panic
      [] kind = "group" -> GroupPushed(analyse_test_group(line), suites)
      [] kind = "test" -> TestPushed(analyse_test(line), suites)
      [] OTHER -> PErr("InvalidLineStart", "", line[1].line, line[1].column)

\* One iteration of `for line in lines`
LineOutcome(line, suites) == Dispatched(Dispatch(line), line, suites)

\* A whole catalogue line and its Newline are put on the stream.
AddLine(entry) ==
    /\ p_pc = "catalogue"
    /\ Cardinality(NewlineAt(tokens)) < MaxLines
    /\ tokens' = tokens \o Place(entry, LineNo(tokens))
                      \o <<Token("Newline", "\n", LineNo(tokens), Len(entry) + 1)>>
    /\ UNCHANGED <<p_pc, lines, line_index, test_suites, parsed, runs>>
    /\ UNCHANGED serial_vars

\* A catalogue line without a Newline ends the stream.
AddTail(entry) ==
    /\ p_pc = "catalogue"
    /\ entry # <<>>
    /\ Cardinality(NewlineAt(tokens)) < MaxLines
    /\ tokens' = tokens \o Place(entry, LineNo(tokens))
    /\ p_pc' = "ready"
    /\ UNCHANGED <<lines, line_index, test_suites, parsed, runs>>
    /\ UNCHANGED serial_vars

\* One token is put on the only line of a stream built token by token.
AddToken(kind) ==
    /\ p_pc \in {"catalogue", "line"}
    /\ NewlineAt(tokens) = {}
    /\ Len(tokens) < MaxTokens
    /\ Alive(CurrentLine(tokens))
    /\ \E v \in Values(CurrentLine(tokens), kind) :
          tokens' = Append(tokens, Token(kind, v, LineNo(tokens),
                                         Len(CurrentLine(tokens)) + 1))
    /\ p_pc' = "line"
    /\ UNCHANGED <<lines, line_index, test_suites, parsed, runs>>
    /\ UNCHANGED serial_vars

\* The last line is terminated by a Newline.
EndLine ==
    /\ p_pc = "line"
    /\ Len(tokens) < MaxTokens
    /\ tokens' = Append(tokens, Token("Newline", "\n", LineNo(tokens),
                                      Len(CurrentLine(tokens)) + 1))
    /\ p_pc' = "ready"
    /\ UNCHANGED <<lines, line_index, test_suites, parsed, runs>>
    /\ UNCHANGED serial_vars

\* The end of the split loop with result r: the lines, or the early return
AfterSplit(r) ==
    IF r.tag = "Ok"
    THEN /\ lines' = r.lines
         /\ p_pc' = "dispatch"
         /\ UNCHANGED parsed
    ELSE /\ parsed' = r
         /\ p_pc' = "done"
         /\ UNCHANGED lines

\* analyse_tokens is called: the stream is split into lines.
AnalyseTokens ==
    /\ p_pc \in {"catalogue", "line", "ready"}
    /\ AfterSplit(SplitLines(tokens, 1, <<>>, <<>>))
    /\ UNCHANGED <<tokens, line_index, test_suites, runs>>
    /\ UNCHANGED serial_vars

\* The end of an iteration with outcome o: the next line, or the early return
AfterLine(o) ==
    IF o.tag = "Ok"
    THEN /\ test_suites' = o.suites
         /\ line_index' = line_index + 1
         /\ UNCHANGED <<p_pc, parsed>>
    ELSE /\ parsed' = o
         /\ p_pc' = "done"
         /\ UNCHANGED <<test_suites, line_index>>

\* The next line is classified and analysed.
AnalyseLine ==
    /\ p_pc = "dispatch"
    /\ line_index <= Len(lines)
    /\ AfterLine(LineOutcome(lines[line_index], test_suites))
    /\ runs' = IF Dispatch(lines[line_index]) \in {"group", "test"}
               THEN runs + 1
               ELSE runs
    /\ UNCHANGED <<tokens, lines>>
    /\ UNCHANGED serial_vars

\* Ok(test_suites)
ReturnSuites ==
    /\ p_pc = "dispatch"
    /\ line_index > Len(lines)
    /\ parsed' = [tag |-> "Ok", suites |-> test_suites]
    /\ p_pc' = "done"
    /\ UNCHANGED <<tokens, lines, line_index, test_suites, runs>>
    /\ UNCHANGED serial_vars

ParserInit ==
    /\ SerialInit
    /\ port_timeout = 1
    /\ p_pc = "catalogue"
    /\ tokens = <<>>
    /\ lines = <<>>
    /\ line_index = 1
    /\ test_suites = <<>>
    /\ parsed = [tag |-> "None"]
    /\ runs = 0

ParserNext ==
    \/ \E entry \in Catalogue : AddLine(entry)
    \/ \E entry \in Catalogue : AddTail(entry)
    \/ \E kind \in TokenKinds \ {"Newline"} : AddToken(kind)
    \/ EndLine
    \/ AnalyseTokens
    \/ AnalyseLine
    \/ ReturnSuites

ParserSpec == ParserInit /\ [][ParserNext]_vars

----------------------------------------------------------------------------
\* Properties of the two grammars and of analyse_test / analyse_test_group

\* analyse_tokens has returned for a stream of exactly one line.
OneLineDone == p_pc = "done" /\ Len(lines) = 1

\* C12: the test-case state machine accepts a sequence of token kinds if
\* and only if the sequence matches the documented grammar
\* [ '(' Identifier ( ',' Identifier '=' Identifier )* ')' ]
\* [FormatSpecifier] Content '->' [FormatSpecifier] Content.
C12_AcceptsDocumentedGrammar ==
    (p_pc = "line" /\ tokens[1].token_type \in TestStarts)
        => (run("test", tokens).ok <=> Matches("reference", tokens))

\* C13: `[ Foo ]` followed by `"a" -> "b"` is analysed into one suite Foo
\* holding one test with empty name, input "a", output "b" and default
\* settings.
C13_GroupThenBareTest ==
    (p_pc = "done" /\ lines = <<Place(GroupLine("Foo"), 1), Place(BareTestLine, 2)>>)
        => parsed = [tag |-> "Ok",
                     suites |-> <<[name |-> "Foo",
                                   tests |-> <<NewTestCase("", "a", "b",
                                                           DefaultTestSettings)>>]>>]

\* C14: a line starting with '[' is accepted exactly when it is
\* '[' Identifier ']' and then gives an empty suite named by the identifier;
\* a failure in state 2 is MissingGroupIdentifier and one in state 3 is
\* MissingClosingParenthesis("]"), at the rejecting token, or at the last
\* token when the line ends early.
C14_GroupHeader ==
    (OneLineDone /\ lines[1][1].token_type = "LeftGroupParenthesis") =>
        LET l == lines[1]
            n == Len(l)
            named == n >= 2 /\ l[2].token_type = "Identifier"
            closed == named /\ n >= 3 /\ l[3].token_type = "RightGroupParenthesis"
            at(i) == l[IF n >= i THEN i ELSE n]
        IN  /\ parsed.tag = "Ok" <=> (closed /\ n = 3)
            /\ parsed.tag = "Ok" =>
                  parsed.suites = <<[name |-> l[2].value, tests |-> <<>>]>>
            /\ ~named =>
                  parsed = PErr("MissingGroupIdentifier", "", at(2).line, at(2).column)
            /\ (named /\ ~closed) =>
                  parsed = PErr("MissingClosingParenthesis", "]", at(3).line,
                                at(3).column)

\* `[ Foo ]` alone gives the empty suite Foo.
C14_Witness ==
    /\ OneLineDone
    /\ lines[1] = Place(GroupLine("Foo"), 1)
    /\ parsed = [tag |-> "Ok", suites |-> <<NewTestSuite("Foo")>>]

\* The tokens of l the test-case machine takes before it rejects
Taken(l) ==
    CHOOSE k \in 0..Len(l) :
        /\ StateAfter("test", 1, SubSeq(l, 1, k)) # 0
        /\ k < Len(l) => StateAfter("test", 1, SubSeq(l, 1, k + 1)) = 0

\* C15: when the test-case state machine fails, the state before the
\* failure alone determines the error (2: MissingTestIdentifier, 3:
\* MissingClosingParenthesis(")"), 4/5: MissingContent("input"), 6:
\* MissingDirectionSeparator, 7/8: MissingContent("output")) and the error
\* carries the position of the rejecting token, or of the last token when
\* the line ends in a non-accepting state.
C15_TestFailureMapping ==
    (/\ OneLineDone
     /\ lines[1][1].token_type \in TestStarts
     /\ ~Matches("test", lines[1])) =>
        LET l == lines[1]
            k == Taken(l)
            state == StateAfter("test", 1, SubSeq(l, 1, k))
            token == l[IF k < Len(l) THEN k + 1 ELSE k]
        IN  /\ parsed.tag = "Err"
            /\ parsed.line = token.line
            /\ parsed.column = token.column
            /\ state = 2 => parsed.error = "MissingTestIdentifier"
            /\ state = 3 => /\ parsed.error = "MissingClosingParenthesis"
                            /\ parsed.arg = ")"
            /\ state \in {4, 5} => /\ parsed.error = "MissingContent"
                                   /\ parsed.arg = "input"
            /\ state = 6 => parsed.error = "MissingDirectionSeparator"
            /\ state \in {7, 8} => /\ parsed.error = "MissingContent"
                                   /\ parsed.arg = "output"

\* `( T1 "a"`: the content token stands where ')' is missing.
C15_Witness ==
    /\ OneLineDone
    /\ Len(lines[1]) = 3
    /\ lines[1][1].token_type = "LeftTestParenthesis"
    /\ lines[1][2].token_type = "Identifier"
    /\ lines[1][3].token_type = "Content"
    /\ parsed = PErr("MissingClosingParenthesis", ")", 1, 3)

\* C16: `( , ignore-case=maybe ) "x" -> "y"` is rejected with
\* InvalidOptionValue("boolean") at the position of the value token.
C16_NamelessHeaderOptionValue ==
    (p_pc = "done" /\ lines = <<Place(NamelessOptionLine, 1)>>)
        => parsed = PErr("InvalidOptionValue", "boolean", 1, 5)

----------------------------------------------------------------------------
\* Properties of analyse_tokens

IllegalAt(toks) == {i \in 1..Len(toks) : toks[i].token_type = "Illegal"}

\* C17: a stream that contains an Illegal token gives IllegalToken with the
\* value and position of its first Illegal token, and none of its lines is
\* run through a grammar state machine.
C17_IllegalAborts ==
    IllegalAt(tokens) # {} =>
        /\ runs = 0
        /\ p_pc # "dispatch"
        /\ p_pc = "done" =>
              LET i == CHOOSE i \in IllegalAt(tokens) :
                           \A j \in IllegalAt(tokens) : i <= j
              IN  parsed = PErr("IllegalToken", tokens[i].value, tokens[i].line,
                                tokens[i].column)

\* `[ ]`, then a line with '#', then a line with '?': the '#' is reported.
C17_Witness ==
    /\ p_pc = "done"
    /\ Cardinality(IllegalAt(tokens)) = 2
    /\ tokens[1].token_type = "LeftGroupParenthesis"
    /\ tokens[2].token_type = "RightGroupParenthesis"
    /\ parsed = PErr("IllegalToken", "#", 2, 1)
    /\ runs = 0

BadStarts == LineKinds \ ({"LeftGroupParenthesis"} \cup TestStarts)

\* Line i has been through the body of `for line in lines`.
Processed(i) == i < line_index \/ (p_pc = "done" /\ i = line_index)

\* C18: a line is dispatched by the kind of its first token only: '[' to
\* group handling, '(' / FormatSpecifier / Content to test handling, any
\* other kind gives InvalidLineStart at that token and ends the parse.
C18_DispatchByFirstToken ==
    p_pc \in {"dispatch", "done"} =>
        /\ \A i \in 1..Len(lines) :
              i < line_index => lines[i][1].token_type \notin BadStarts
        /\ runs = Cardinality({i \in 1..Len(lines) :
                      Processed(i) /\ lines[i][1].token_type \notin BadStarts})
        /\ (p_pc = "done" /\ line_index <= Len(lines)) =>
              LET l == lines[line_index] IN
              /\ l[1].token_type \in BadStarts =>
                    parsed = PErr("InvalidLineStart", "", l[1].line, l[1].column)
              /\ l[1].token_type = "LeftGroupParenthesis" =>
                    parsed = analyse_test_group(l)
              /\ l[1].token_type \in TestStarts => parsed = analyse_test(l)

\* A valid line, then a line starting with '->'.
C18_Witness ==
    /\ p_pc = "done"
    /\ line_index = 2
    /\ runs = 1
    /\ Len(lines) >= 2
    /\ lines[2][1].token_type = "DirectionSeparator"
    /\ parsed = PErr("InvalidLineStart", "", 2, 1)

\* The suites in order, each as its header followed by its tests
RECURSIVE Flatten(_)
Flatten(suites) ==
    IF suites = <<>>
    THEN <<>>
    ELSE <<[kind |-> "group", name |-> Head(suites).name, test |-> <<>>]>>
         \o [i \in 1..Len(Head(suites).tests) |->
                [kind |-> "test", name |-> "", test |-> <<Head(suites).tests[i]>>]]
         \o Flatten(Tail(suites))

\* What a line contributes: a header, or the test it describes
LineItem(l) ==
    IF l[1].token_type = "LeftGroupParenthesis"
    THEN [kind |-> "group", name |-> l[2].value, test |-> <<>>]
    ELSE [kind |-> "test", name |-> "", test |-> <<analyse_test(l).test>>]

LineValid(l) ==
    \/ l[1].token_type = "LeftGroupParenthesis" /\ analyse_test_group(l).tag = "Ok"
    \/ l[1].token_type \in TestStarts /\ analyse_test(l).tag = "Ok"

\* C19: on success the suites come in the order of their group-header
\* lines and every test stands, in line order, in the suite of the nearest
\* group header before it, or in one implicit first suite named "" when
\* there is none; no order of valid group and test lines is an error.
C19_SuitesFollowLineOrder ==
    (p_pc = "done" /\ IllegalAt(tokens) = {}) =>
        /\ (\A i \in 1..Len(lines) : LineValid(lines[i])) => parsed.tag = "Ok"
        /\ parsed.tag = "Ok" =>
              Flatten(parsed.suites) =
                  (IF lines # <<>> /\ lines[1][1].token_type # "LeftGroupParenthesis"
                   THEN <<[kind |-> "group", name |-> "", test |-> <<>>]>>
                   ELSE <<>>)
                  \o [i \in 1..Len(lines) |-> LineItem(lines[i])]

\* A test, a group header, a test: the implicit suite and the group each
\* hold one test.
C19_Witness ==
    /\ p_pc = "done"
    /\ parsed.tag = "Ok"
    /\ Len(lines) = 3
    /\ lines[1][1].token_type \in TestStarts
    /\ lines[2][1].token_type = "LeftGroupParenthesis"
    /\ lines[3][1].token_type \in TestStarts
    /\ Len(parsed.suites) = 2
    /\ parsed.suites[1].name = ""
    /\ Len(parsed.suites[1].tests) = 1
    /\ Len(parsed.suites[2].tests) = 1

KnownOptions == {"ignore-case", "delay", "timeout", "repeat"}

\* The error an option must give, if any
OptionFault(name, value) ==
    LET n == trim(name.value) IN
    CASE n \notin KnownOptions ->
           PErr("UnknownTestOption", n, name.line, name.column)
      [] n = "ignore-case" /\ get_boolean_value(value.value) = <<>> ->
           PErr("InvalidOptionValue", "boolean", value.line, value.column)
      [] n \in {"delay", "timeout"} /\ get_time_value(value.value) = <<>> ->
           PErr("InvalidOptionValue", "time", value.line, value.column)
      [] n = "repeat" /\ parse_u32(value.value) = <<>> ->
           PErr("InvalidOptionValue", "number", value.line, value.column)
      [] OTHER -> [tag |-> "None"]

\* C20: in a grammar-accepted test header the first option, from the left,
\* with an unknown (trimmed) name or an unparseable value decides the
\* result: UnknownTestOption with the name at the name token, or
\* InvalidOptionValue "boolean" / "time" / "number" at the value token; no
\* TestCase is produced.
C20_FirstOptionFault ==
    (/\ OneLineDone
     /\ lines[1][1].token_type = "LeftTestParenthesis"
     /\ Matches("test", lines[1])) =>
        LET l == lines[1]
            m == Cardinality({i \in 1..Len(l) : l[i].token_type = "ContentSeparator"})
            fault(j) == OptionFault(l[4 * j], l[4 * j + 2])
            faulty == {j \in 1..m : fault(j).tag = "Err"}
        IN  faulty # {} =>
              parsed = fault(CHOOSE j \in faulty : \A k \in faulty : j <= k)

\* delay=maybe comes before the unknown option colour: the delay is reported.
C20_Witness ==
    /\ OneLineDone
    /\ lines[1] = Place(TwoFaultLine, 1)
    /\ parsed = PErr("InvalidOptionValue", "time", 1, 6)

----------------------------------------------------------------------------
\* Properties of the test case analyse_test builds

\* analyse_tokens has returned one suite with the one test of a one-line stream.
OneTestDone ==
    /\ OneLineDone
    /\ lines[1][1].token_type \in TestStarts
    /\ parsed.tag = "Ok"

TheTest == parsed.suites[1].tests[1]

\* Position of the direction separator of a line
ArrowAt(l) == CHOOSE i \in 1..Len(l) : l[i].token_type = "DirectionSeparator"

\* The trimmed names of the options of a line
OptionsNamed(l) ==
    {trim(l[i].value) : i \in {j \in 2..Len(l) : l[j - 1].token_type = "ContentSeparator"}}

FormatOf(v) ==
    CASE v = "b" -> "Binary"
      [] v = "o" -> "Octal"
      [] v = "d" -> "Decimal"
      [] v = "h" -> "Hex"
      [] OTHER -> "?"

\* The format a content token at position i must get: that of the format
\* specifier directly before it, text mode without one.
FormatBefore(l, i) ==
    IF i > 1 /\ l[i - 1].token_type = "FormatSpecifier"
    THEN FormatOf(l[i - 1].value)
    ELSE DefaultTestSettings.input_format

\* C21: the settings of a successfully analysed test differ from the
\* defaults only in the fields its options name and in input_format /
\* output_format, each of which is set solely by the format specifier
\* directly before the input / output content.
C21_SettingsFrame ==
    OneTestDone =>
        LET l == lines[1]
            st == TheTest.settings
            named == OptionsNamed(l)
        IN  /\ "ignore-case" \notin named =>
                  st.ignore_case = DefaultTestSettings.ignore_case
            /\ "delay" \notin named => st.delay = DefaultTestSettings.delay
            /\ "timeout" \notin named => st.timeout = DefaultTestSettings.timeout
            /\ "repeat" \notin named => st.repeat = DefaultTestSettings.repeat
            /\ st.input_format = FormatBefore(l, ArrowAt(l) - 1)
            /\ st.output_format = FormatBefore(l, Len(l))

\* C22: for every line the test-case state machine accepts, the input of
\* the test is the value of the Content token directly before the direction
\* separator and the output is the value of the last Content token.
C22_InputAndOutput ==
    OneTestDone =>
        /\ TheTest.input = lines[1][ArrowAt(lines[1]) - 1].value
        /\ TheTest.output = lines[1][Len(lines[1])].value

\* C23: no accepted line makes analyse_test or analyse_test_group index
\* outside the line, and no line of `lines` is empty.
C23_NoIndexOutOfRange ==
    /\ parsed.tag # "Panic"
    /\ \A i \in 1..Len(lines) :
          /\ lines[i] # <<>>
          /\ (lines[i][1].token_type \in TestStarts /\ run("test", lines[i]).ok)
                => BuildTestCase(lines[i]).tag # "Panic"
          /\ (lines[i][1].token_type = "LeftGroupParenthesis"
                /\ run("group", lines[i]).ok)
                => analyse_test_group(lines[i]).tag # "Panic"

\* A header with an option and both format specifiers is walked to its end.
C23_Witness ==
    /\ OneTestDone
    /\ Len(lines[1]) = 12
    /\ lines[1][3].token_type = "ContentSeparator"
    /\ lines[1][8].token_type = "FormatSpecifier"
    /\ lines[1][11].token_type = "FormatSpecifier"
    /\ TheTest.output = lines[1][12].value

----------------------------------------------------------------------------
\* Further properties of check_read_with_settings

\* At the top of the loop, where the next read is issued, the response is a
\* prefix of desired_response, a proper one once a read has been made.
PrefixAtRead ==
    (InCheck /\ pc = "loop") =>
        /\ starts_with(desired_response, response)
        /\ reads >= 1 => response # desired_response

\* C24: whenever check_read_with_settings issues a read, the response is a
\* prefix of desired_response, a proper prefix on every read after the
\* first; so one call makes at most Len(desired_response) reads that return
\* non-empty text.
C24_PrefixBoundsReads ==
    /\ PrefixAtRead
    /\ InCheck => texts <= Len(desired_response)

\* C24 as amended: with an empty desired_response one read may return
\* non-empty text (it ends the call); otherwise at most
\* Len(desired_response) reads do.
C24_PrefixBoundsReadsAmended ==
    /\ PrefixAtRead
    /\ InCheck =>
          texts <= (IF desired_response = <<>> THEN 1 ELSE Len(desired_response))

\* Two characters are expected and arrive in two reads of one byte.
C24_Witness ==
    /\ InCheck
    /\ pc = "done"
    /\ Len(desired_response) = 2
    /\ texts = 2
    /\ result = OkCheck(TRUE, desired_response)

HasUpper(t) == to_lowercase(t) # t

\* C25: with ignore_case only the received text is lower-cased and
\* desired_response is compared as it is, so a desired_response with an
\* upper-case character is never reported as matched.
C25_UpperCaseNeverMatches ==
    (InCheck /\ settings.ignore_case /\ result.tag = "Ok") =>
        /\ result.response =
              to_lowercase(radix_string(arrived, settings.output_format))
        /\ result.matched <=> (result.response = desired_response)
        /\ HasUpper(desired_response) => ~result.matched

\* "K" is expected without regard to case and "K" arrives: no match.
C25_Witness ==
    /\ InCheck
    /\ pc = "done"
    /\ settings.ignore_case
    /\ desired_response = <<"K">>
    /\ arrived = <<75>>
    /\ result = OkCheck(FALSE, <<"k">>)

----------------------------------------------------------------------------
\* Further properties of analyse_tokens

NotNewline(t) == t.token_type # "Newline"

\* The stream up to its last Newline
Terminated(toks) ==
    LET nl == NewlineAt(toks) IN
    IF nl = {}
    THEN <<>>
    ELSE SubSeq(toks, 1, CHOOSE i \in nl : \A j \in nl : j <= i)

RECURSIVE Concat(_)
Concat(ls) == IF ls = <<>> THEN <<>> ELSE Head(ls) \o Concat(Tail(ls))

\* The lines hold the tokens before the last Newline and no others.
OnlyTerminatedLines ==
    (p_pc \in {"dispatch", "done"} /\ IllegalAt(tokens) = {}) =>
        /\ Concat(lines) = SelectSeq(Terminated(tokens), NotNewline)
        /\ runs <= Len(lines)

\* C26: only lines terminated by a Newline are analysed; the tokens after
\* the last Newline are dropped without a grammar run and without an
\* error, so a stream without any Newline gives Ok(no suites) whatever
\* else it contains.
C26_UnterminatedDropped ==
    /\ OnlyTerminatedLines
    /\ (p_pc = "done" /\ NewlineAt(tokens) = {}) =>
          /\ parsed = [tag |-> "Ok", suites |-> <<>>]
          /\ runs = 0

\* C26 as amended: a stream without any Newline and without an Illegal
\* token gives Ok(no suites) whatever else it contains.
C26_UnterminatedDroppedAmended ==
    /\ OnlyTerminatedLines
    /\ (p_pc = "done" /\ NewlineAt(tokens) = {} /\ IllegalAt(tokens) = {}) =>
          /\ parsed = [tag |-> "Ok", suites |-> <<>>]
          /\ runs = 0

\* `[ Foo ]` is terminated, the `-> "b"` after it is not: one suite, no error.
C26_Witness ==
    /\ p_pc = "done"
    /\ Len(tokens) = 6
    /\ tokens[4].token_type = "Newline"
    /\ tokens[5].token_type = "DirectionSeparator"
    /\ parsed = [tag |-> "Ok", suites |-> <<NewTestSuite("Foo")>>]
    /\ runs = 1

\* C27: a test line rejected in the option block (states 10 to 13) or by a
\* token after the output content (state 9) gives UnknownError at the
\* rejecting token, or at the last token when the line ends there.
C27_UnmappedStatesAreUnknownError ==
    (/\ OneLineDone
     /\ lines[1][1].token_type \in TestStarts
     /\ ~Matches("test", lines[1])) =>
        LET l == lines[1]
            k == Taken(l)
            state == StateAfter("test", 1, SubSeq(l, 1, k))
            token == l[IF k < Len(l) THEN k + 1 ELSE k]
        IN  state \in {9, 10, 11, 12, 13} =>
              parsed = PErr("UnknownError", "", token.line, token.column)

\* `( T1 , delay = 200ms "a"`: the content stands where ')' is missing.
C27_Witness ==
    /\ OneLineDone
    /\ Len(lines[1]) = 7
    /\ lines[1][6].token_type = "Identifier"
    /\ lines[1][7].token_type = "Content"
    /\ StateAfter("test", 1, SubSeq(lines[1], 1, 6)) = 13
    /\ parsed = PErr("UnknownError", "", 1, 7)

GroupLines == {i \in 1..Len(lines) : lines[i][1].token_type = "LeftGroupParenthesis"}

TestLines == {i \in 1..Len(lines) : lines[i][1].token_type \in TestStarts}

RECURSIVE CountTests(_)
CountTests(suites) ==
    IF suites = <<>> THEN 0 ELSE Len(Head(suites).tests) + CountTests(Tail(suites))

\* C28: on success there is one suite per group-header line, plus one if
\* and only if the first line is a test line, and one test per test line;
\* group headers of the same name are not merged.
C28_SuiteAndTestCounts ==
    (p_pc = "done" /\ parsed.tag = "Ok") =>
        /\ Len(parsed.suites) =
              Cardinality(GroupLines) + (IF 1 \in TestLines THEN 1 ELSE 0)
        /\ CountTests(parsed.suites) = Cardinality(TestLines)

\* `[ Foo ]` twice with a test in between: two suites named Foo.
C28_Witness ==
    /\ p_pc = "done"
    /\ parsed.tag = "Ok"
    /\ Len(parsed.suites) = 2
    /\ parsed.suites[1].name = "Foo"
    /\ parsed.suites[2].name = "Foo"
    /\ CountTests(parsed.suites) = 1
    /\ Len(parsed.suites[1].tests) = 1

====
